---- MODULE Spec2Model ----
(***************************************************************************)
(* Model of browser_patches/repack-juggler.mjs: the build cache            *)
(* (ensureFirefoxBuild), the downloader (httpRequest, downloadFile), the   *)
(* omni.ja patcher (repackageJuggler) and main, over an abstract file      *)
(* system rooted at BUILD_DIRECTORY.                                       *)
(*                                                                         *)
(* A file path is a tuple of path segments, an archive is a set of         *)
(* [name, data] entries, and file data is a tuple that names its origin.   *)
(* A directory exists exactly when a file lies beneath it, except for      *)
(* BUILD_DIRECTORY and OMNI_EXTRACT_DIR, whose existence is tracked.       *)
(***************************************************************************)
EXTENDS Integers, Sequences, FiniteSets, TLC

\* Build numbers that can be requested are 1..MaxBuildNumber.
MaxBuildNumber == 2
\* The server answers at most MaxRedirects redirects in one download.
MaxRedirects == 2
\* At most MaxFaults operations of the file system or the network fail in
\* one behaviour.
MaxFaults == 1

\* First line of <browserName>/BUILD_NUMBER, read when no build number is given.
BUILD_NUMBER_FILE == 1

NoArg == "<none>"

BrowserNames == {"firefox", "firefox-beta"}

\* ------------------------------------------------------------------------
\* Tables

EXECUTABLE_PATHS ==
  ("ubuntu18.04" :> <<"firefox", "firefox">>) @@
  ("ubuntu20.04" :> <<"firefox", "firefox">>) @@
  ("mac10.14" :> <<"firefox", "Nightly.app", "Contents", "MacOS", "firefox">>) @@
  ("mac10.15" :> <<"firefox", "Nightly.app", "Contents", "MacOS", "firefox">>) @@
  ("mac11" :> <<"firefox", "Nightly.app", "Contents", "MacOS", "firefox">>) @@
  ("mac11-arm64" :> <<"firefox", "Nightly.app", "Contents", "MacOS", "firefox">>) @@
  ("win64" :> <<"firefox", "firefox.exe">>)

\* The URL templates; "%s" stands for the build number.
DOWNLOAD_URLS ==
  ("firefox" :>
     (("ubuntu18.04" :> "builds/firefox/%s/firefox-ubuntu-18.04.zip") @@
      ("ubuntu20.04" :> "builds/firefox/%s/firefox-ubuntu-20.04.zip") @@
      ("mac10.14" :> "builds/firefox/%s/firefox-mac-11.zip") @@
      ("mac10.15" :> "builds/firefox/%s/firefox-mac-11.zip") @@
      ("mac11" :> "builds/firefox/%s/firefox-mac-11.zip") @@
      ("mac11-arm64" :> "builds/firefox/%s/firefox-mac-11-arm64.zip") @@
      ("win64" :> "builds/firefox/%s/firefox-win64.zip"))) @@
  ("firefox-beta" :>
     (("ubuntu18.04" :> "builds/firefox-beta/%s/firefox-beta-ubuntu-18.04.zip") @@
      ("ubuntu20.04" :> "builds/firefox-beta/%s/firefox-beta-ubuntu-20.04.zip") @@
      ("mac10.14" :> "builds/firefox-beta/%s/firefox-beta-mac-11.zip") @@
      ("mac10.15" :> "builds/firefox-beta/%s/firefox-beta-mac-11.zip") @@
      ("mac11" :> "builds/firefox-beta/%s/firefox-beta-mac-11.zip") @@
      ("mac11-arm64" :> "builds/firefox-beta/%s/firefox-beta-mac-11-arm64.zip") @@
      ("win64" :> "builds/firefox-beta/%s/firefox-beta-win64.zip")))

\* DOWNLOAD_URLS[browserName][buildPlatform] is undefined for a platform
\* that is not a key of the table.
HasUrlTemplate(browserName, buildPlatform) ==
  buildPlatform \in DOMAIN DOWNLOAD_URLS[browserName]

\* util.format(urlTemplate, buildNumber): a URL is <<host, template, number>>.
FormatUrl(urlTemplate, buildNumber) ==
  <<"playwright.azureedge.net", urlTemplate, buildNumber>>

\* Lines 107-110: the url a request is downloaded from.
UrlOf(r) == FormatUrl(DOWNLOAD_URLS[r.browserName][r.buildPlatform], r.buildNumber)

\* ------------------------------------------------------------------------
\* Host platform

\* The hosts the tool is run on in this model.
Hosts ==
  { [platform |-> "linux", major |-> 0, minor |-> 0, arm64 |-> FALSE, ubuntu |-> 20] }

\* The decimal text of a number, as a template literal prints it.
Digits == <<"0", "1", "2", "3", "4", "5", "6", "7", "8", "9">>

RECURSIVE NumberText(_)
NumberText(n) ==
  IF n < 10 THEN Digits[n + 1] ELSE NumberText(n \div 10) \o Digits[(n % 10) + 1]

LAST_STABLE_MAC_MAJOR_VERSION == 11

\* The major version printed whatever it is.
MacVersion_NoClamp(major, minor) ==
  IF major = 10 THEN NumberText(major) \o "." \o NumberText(minor) ELSE NumberText(major)

\* Lines 310-317, macVersion: "<major>", "<major>.<minor>" for 10, and
\* LAST_STABLE_MAC_MAJOR_VERSION for a major above it.
MacVersion(major, minor) ==
  IF major = 10 THEN NumberText(major) \o "." \o NumberText(minor)
  ELSE IF major > LAST_STABLE_MAC_MAJOR_VERSION THEN NumberText(LAST_STABLE_MAC_MAJOR_VERSION)
  ELSE NumberText(major)

\* Lines 318-319: `mac${macVersion}${archSuffix}`.
MacTag(macVersion, arm64) ==
  "mac" \o macVersion \o (IF arm64 THEN "-arm64" ELSE "")

getHostPlatform(h) ==
  IF h.platform = "darwin"
    THEN LET arm64 == IF h.major >= 11 THEN h.arm64 ELSE FALSE
         IN MacTag(MacVersion(h.major, h.minor), arm64)
  ELSE IF h.platform = "linux"
    THEN (IF h.ubuntu <= 19 /\ h.ubuntu > 0 THEN "ubuntu18.04" ELSE "ubuntu20.04")
  ELSE IF h.platform = "win32" THEN "win64"
  ELSE h.platform

\* ------------------------------------------------------------------------
\* The builds the server holds

\* Paths inside the build zip.
OmniPath == <<"firefox", "omni.ja">>
BrowserOmniPath == <<"firefox", "browser", "omni.ja">>
BinaryPath == <<"firefox", "firefox">>

\* Entry names inside omni.ja.
JugglerDir == <<"chrome", "juggler">>

IsPrefix(p, s) ==
  /\ Len(p) <= Len(s)
  /\ \A i \in 1..Len(p) : s[i] = p[i]

\* An entry lies under chrome/juggler of the extracted archive.
UnderJuggler(name) == IsPrefix(JugglerDir, name) /\ Len(name) > Len(JugglerDir)

OrigData(url, id) == <<"orig", url, id>>

\* The pristine omni.ja of a build: two files under chrome/juggler (one of
\* them at a path the manifest also maps) and one file outside it.
PristineOmni(url) ==
  { [name |-> <<"chrome", "juggler", "content", "a">>, data |-> OrigData(url, "a0")],
    [name |-> <<"chrome", "juggler", "content", "old">>, data |-> OrigData(url, "old")],
    [name |-> <<"chrome", "chrome.manifest">>, data |-> OrigData(url, "manifest")] }

\* The other omni.ja of a build has no juggler in it.
PristineBrowserOmni(url) ==
  { [name |-> <<"chrome", "browser", "content", "b.js">>, data |-> OrigData(url, "b")] }

RawFile(url, id) == { [name |-> <<>>, data |-> OrigData(url, id)] }

\* The zips of firefox-beta hold one more omni.ja with entries under
\* chrome/juggler, a copy of the first.
ExtraOmniPath == <<"firefox", "extra", "omni.ja">>

HasExtraOmni(url) ==
  \E p \in DOMAIN DOWNLOAD_URLS["firefox-beta"] : DOWNLOAD_URLS["firefox-beta"][p] = url[2]

\* The files of the zip the server holds at a URL.
ZipTree(url) ==
  { [path |-> OmniPath, content |-> PristineOmni(url)],
    [path |-> BrowserOmniPath, content |-> PristineBrowserOmni(url)],
    [path |-> BinaryPath, content |-> RawFile(url, "bin")] }
  \cup (IF HasExtraOmni(url)
          THEN {[path |-> ExtraOmniPath, content |-> PristineOmni(url)]}
          ELSE {})

\* ------------------------------------------------------------------------
\* The manifest (jar.mn)

\* A line is the sequence of its whitespace-separated tokens after trim();
\* a token is a sequence of atoms, each atom one character of the token
\* except the atom "content/", which stands for those eight characters.
DestToken(f) == <<"content/", f>>
SrcToken(f) == <<"(", f, ")">>
MappingLine(f) == <<DestToken(f), SrcToken(f)>>
HeaderLine == << <<"juggler.jar", ":">> >>
OverrideLine == << <<"%">>, <<"content/", "x">>, <<"y">> >>
\* The line "content/c)": it starts with content/ and ends with ')' and
\* has no second token.
OneTokenLine == << <<"content/", "c", ")">> >>

\* The manifests of this model: no applicable line, one, two among
\* lines that are ignored, and one followed by a line of one token.
Manifests ==
  { << HeaderLine >>,
    << HeaderLine, MappingLine("b") >>,
    << HeaderLine, MappingLine("a"), OverrideLine, MappingLine("b") >>,
    << HeaderLine, MappingLine("b"), OneTokenLine >> }

Last(s) == s[Len(s)]

\* line.startsWith('content/') && line.endsWith(')')
IsJarLine(line) ==
  /\ Len(line) > 0
  /\ Len(line[1]) > 0 /\ line[1][1] = "content/"
  /\ Len(Last(line)) > 0 /\ Last(Last(line)) = ")"

RECURSIVE FilterJarLines(_)
FilterJarLines(lines) ==
  IF lines = <<>> THEN <<>>
  ELSE IF IsJarLine(Head(lines))
    THEN <<Head(lines)>> \o FilterJarLines(Tail(lines))
    ELSE FilterJarLines(Tail(lines))

\* jarmn.split('\n').map(trim).filter(...)
JarLines(jarmn) == FilterJarLines(jarmn)

\* The second token as it is.
Slice1_Whole(token) == token

\* tokens[1].slice(1, -1)
Slice1(token) == SubSeq(token, 2, Len(token) - 1)

\* The destination joined to OMNI_EXTRACT_DIR in place of OMNI_JUGGLER_DIR.
ToPath_ExtractDir(line) == <<"content">> \o Tail(line[1])

\* path.join(OMNI_JUGGLER_DIR, tokens[0]) relative to OMNI_EXTRACT_DIR:
\* the atom "content/" is the directory content, the rest the file name.
ToPath(line) == JugglerDir \o <<"content">> \o Tail(line[1])

\* The file at path.join(__dirname, browserName, 'juggler', tokens[1].slice(1, -1)).
FromData(browserName, line) == <<"juggler", <<browserName>> \o Slice1(line[2])>>

\* ------------------------------------------------------------------------
\* State

VARIABLES
  pc,       \* where main is: "idle" between runs of the tool
  host,     \* the machine the tool runs on
  jarmn,    \* the lines of <browserName>/juggler/jar.mn
  req,      \* browserName, buildNumber, buildPlatform of the last call
  dir,      \* BUILD_DIRECTORY exists
  info,     \* BUILD_INFO_PATH
  zip,      \* BUILD_DIRECTORY/firefox.zip
  tree,     \* the files extracted from firefox.zip
  backup,   \* OMNI_BACKUP_PATH
  scratch,  \* OMNI_EXTRACT_DIR
  dl,       \* the download in progress: requests, responses, promise
  call,     \* what the last ensureFirefoxBuild did and returned
  patch,    \* what the last repackageJuggler selected and did
  faults,   \* the number of failed operations so far
  hp,       \* the locals of getHostPlatform when it runs step by step
  ls        \* the calls of listFiles when it runs step by step

vars ==
  <<pc, host, jarmn, req, dir, info, zip, tree, backup, scratch, dl, call, patch, faults, hp, ls>>

NoTriple == [browserName |-> "", buildNumber |-> 0, buildPlatform |-> ""]
NoUrl == <<"", "", 0>>
NoPath == <<>>

InfoAbsent == [st |-> "absent", val |-> NoTriple]
ZipAbsent == [st |-> "absent", body |-> <<"none", NoUrl>>]
\* from: the path the backup was copied from.
BackupAbsent == [exists |-> FALSE, content |-> {}, from |-> NoPath]
ScratchAbsent == [exists |-> FALSE, files |-> {}]

DlIdle ==
  [requested |-> <<>>, responses |-> <<>>, promise |-> "none",
   error |-> <<0, NoUrl>>, drained |-> FALSE, written |-> FALSE]

\* ops: the steps the call performed; res: "hit" or "miss" when it
\* returned, "failed" when it threw; ret: the descriptor it returned;
\* sameReq, diffReq, prevOk, prevRet: the call before it had the same
\* request or another one, returned, and returned prevRet; prevInt: the
\* process was interrupted during the call before it.
CallInit ==
  [ops |-> {}, res |-> "none", ret |-> NoTriple, why |-> "",
   sameReq |-> FALSE, diffReq |-> FALSE, prevOk |-> FALSE, prevRet |-> NoTriple,
   prevInt |-> FALSE]

\* target: omniWithJugglerPath; res: "ok", "failed" (why: the step that
\* threw) or "exit1"; doneBefore: the call before this one, in this stage
\* lifetime, completed; prevAbort: the step at which it threw instead.
PatchInit ==
  [target |-> NoPath, step |-> "none", res |-> "none", why |-> "",
   doneBefore |-> FALSE, prevAbort |-> "none"]

\* probes: the commands executed; macVersion, arm64: the locals of lines
\* 301 and 310; tag: the value returned.
HpInit == [probes |-> {}, macVersion |-> "", arm64 |-> FALSE, tag |-> ""]

\* task: where each call of listFiles started so far is, by its aPath;
\* files: the array the calls share; returned: the first call returned it.
LsInit == [task |-> <<>>, files |-> <<>>, returned |-> FALSE]

Init ==
  /\ pc = "idle"
  /\ host \in Hosts
  /\ jarmn \in Manifests
  /\ req = NoTriple
  /\ dir = FALSE
  /\ info = InfoAbsent
  /\ zip = ZipAbsent
  /\ tree = {}
  /\ backup = BackupAbsent
  /\ scratch = ScratchAbsent
  /\ dl = DlIdle
  /\ call = CallInit
  /\ patch = PatchInit
  /\ faults = 0
  /\ hp = HpInit
  /\ ls = LsInit

disk == <<dir, info, zip, tree, backup, scratch>>
env == <<host, jarmn, hp, ls>>

\* An operation fails; one that does not leaves the count alone.
Fault == faults < MaxFaults /\ faults' = faults + 1
NoFault == UNCHANGED faults

\* What is left of the locals of a call when the process has ended.
EndCall(c) == [CallInit EXCEPT !.res = c.res, !.ret = c.ret]
EndPatch(q) ==
  [PatchInit EXCEPT !.res = q.res, !.why = q.why,
                    !.doneBefore = q.doneBefore, !.prevAbort = q.prevAbort]

\* ------------------------------------------------------------------------
\* main and ensureFirefoxBuild

\* The platforms that can be given as the third argument.
ArgPlatforms == {NoArg, "mac10.15", "mac11", "freebsd"}
ArgNumbers == 0..MaxBuildNumber

\* Lines 95-98: the defaults of buildNumber and buildPlatform.  Number 0
\* stands for no second argument.
Resolve(browserName, argNumber, argPlatform, h) ==
  [browserName |-> browserName,
   buildNumber |-> IF argNumber = 0 THEN BUILD_NUMBER_FILE ELSE argNumber,
   buildPlatform |-> IF argPlatform = NoArg THEN getHostPlatform(h) ELSE argPlatform]

\* The catch of main without process.exit: main goes on to repackageJuggler.
EnsureFailsAfter_Continue(op, why) ==
  /\ pc' = "rp_find"
  /\ call' = [call EXCEPT !.ops = @ \cup op, !.res = "failed", !.why = why]

\* An exception of ensureFirefoxBuild reaches the catch of main.
EnsureFailsAfter(op, why) ==
  /\ pc' = "main_catch"
  /\ call' = [call EXCEPT !.ops = @ \cup op, !.res = "failed", !.why = why]

EnsureFails(why) == EnsureFailsAfter({}, why)

\* main calls ensureFirefoxBuild(browserName, argv[3], argv[4]).
Start ==
  /\ pc = "idle"
  /\ \E b \in BrowserNames, n \in ArgNumbers, p \in ArgPlatforms :
       LET r == Resolve(b, n, p, host) IN
       /\ req' = r
       /\ call' = [ops |-> {}, res |-> "running", ret |-> NoTriple, why |-> "",
                   sameReq |-> (call.res # "none" /\ r = req),
                   diffReq |-> (call.res # "none" /\ r # req),
                   prevOk |-> (call.res \in {"hit", "miss"}),
                   prevRet |-> call.ret,
                   prevInt |-> (call.res = "interrupted")]
  /\ pc' = "ensure_read"
  /\ dl' = DlIdle
  /\ patch' = [PatchInit EXCEPT
                 !.doneBefore = patch.doneBefore,
                 !.prevAbort = IF patch.res = "failed" THEN patch.why ELSE "none"]
  /\ NoFault
  /\ UNCHANGED <<disk, env>>

\* Lines 333-336: console.log(e.message); process.exit(1).
MainCatch ==
  /\ pc = "main_catch"
  /\ pc' = "idle"
  /\ call' = EndCall(call)
  /\ dl' = DlIdle
  /\ NoFault
  /\ UNCHANGED <<req, disk, env, patch>>

\* readFile(BUILD_INFO_PATH).then(JSON.parse).catch(...): a file that is
\* absent, unreadable or not JSON gives the descriptor of empty strings.  A
\* JSON number, string or boolean is returned by JSON.parse and has none of
\* the three properties, which compares like the empty strings.
currentBuildInfo == IF info.st = "json" THEN info.val ELSE NoTriple

\* JSON.parse returned null: reading a property of it throws.
CurrentBuildInfoIsNull == info.st = "null"

\* The comparison with the platform of the request in place of its name.
CacheHit_WrongField(cur, r) ==
  /\ cur.buildPlatform = r.buildPlatform
  /\ cur.buildNumber = r.buildNumber
  /\ cur.browserName = r.buildPlatform

\* The comparison with || in place of &&.
CacheHit_AnyField(cur, r) ==
  \/ cur.buildPlatform = r.buildPlatform
  \/ cur.buildNumber = r.buildNumber
  \/ cur.browserName = r.browserName

CacheHit(cur, r) ==
  /\ cur.buildPlatform = r.buildPlatform
  /\ cur.buildNumber = r.buildNumber
  /\ cur.browserName = r.browserName

\* Lines 99-102.  The comparison of line 101 reads
\* currentBuildInfo.buildPlatform first, a TypeError when it is null.
EnsureRead ==
  /\ pc = "ensure_read"
  /\ IF CurrentBuildInfoIsNull
       THEN EnsureFails("TypeError")
       ELSE IF CacheHit(currentBuildInfo, req)
         THEN /\ pc' = "rp_find"
              /\ call' = [call EXCEPT !.res = "hit", !.ret = currentBuildInfo]
         ELSE /\ pc' = "ensure_rm"
              /\ UNCHANGED call
  /\ NoFault
  /\ UNCHANGED <<req, disk, env, dl, patch>>

\* Line 103: rm(BUILD_DIRECTORY, {recursive: true}).catch(e => {}).  The
\* rejection is swallowed whether the directory is absent or the removal
\* stopped part of the way, with some entries of the directory removed.
EnsureRm ==
  /\ pc = "ensure_rm"
  /\ pc' = "ensure_mkdir"
  /\ patch' = [patch EXCEPT !.doneBefore = FALSE, !.prevAbort = "none"]
  /\ IF ~dir
       THEN UNCHANGED disk /\ NoFault
       ELSE \/ /\ dir' = FALSE
               /\ info' = InfoAbsent
               /\ zip' = ZipAbsent
               /\ tree' = {}
               /\ backup' = BackupAbsent
               /\ scratch' = ScratchAbsent
               /\ NoFault
            \/ /\ dir' = TRUE
               /\ info' \in {info, InfoAbsent}
               /\ zip' \in {zip, ZipAbsent}
               /\ tree' \in {tree, {}}
               /\ backup' \in {backup, BackupAbsent}
               /\ scratch' \in {scratch, ScratchAbsent}
               /\ Fault
  /\ call' = [call EXCEPT !.ops = @ \cup {"rm"} \cup (IF dir' THEN {} ELSE {"wiped"})]
  /\ UNCHANGED <<req, env, dl>>

\* mkdir with {recursive: true}, which accepts a directory that exists.
MkdirThrowsEEXIST_Recursive == FALSE

\* mkdir(BUILD_DIRECTORY) without options rejects when the path exists.
MkdirThrowsEEXIST == dir

\* Line 104: mkdir(BUILD_DIRECTORY) throws EEXIST when the directory is
\* still there, and may fail for any other reason.
EnsureMkdir ==
  /\ pc = "ensure_mkdir"
  /\ \/ /\ MkdirThrowsEEXIST
        /\ EnsureFails("EEXIST")
        /\ UNCHANGED dir
        /\ NoFault
     \/ /\ ~MkdirThrowsEEXIST
        /\ \/ /\ dir' = TRUE
              /\ pc' = "ensure_url"
              /\ call' = [call EXCEPT !.ops = @ \cup {"mkdir"}]
              /\ NoFault
           \/ /\ EnsureFails("io")
              /\ UNCHANGED dir
              /\ Fault
  /\ UNCHANGED <<req, info, zip, tree, backup, scratch, env, dl, patch>>

\* ------------------------------------------------------------------------
\* httpRequest and downloadFile

\* The hosts a redirect can name; each holds the resource of the origin.
Mirrors == {"mirror-a", "mirror-b"}

\* What the server can answer to a request for url u.  A redirect carries
\* a Location on a mirror; a 3xx without a Location carries NoUrl.
Redirects(u) ==
  { [status |-> 302, location |-> <<m, u[2], u[3]>>, body |-> <<"redirect-page", u>>] :
      m \in Mirrors }

Terminals(u) ==
  { [status |-> 200, location |-> NoUrl,
     body |-> <<"build", <<"playwright.azureedge.net", u[2], u[3]>> >>],
    [status |-> 404, location |-> NoUrl, body |-> <<"error-page", u>>],
    [status |-> 302, location |-> NoUrl, body |-> <<"redirect-page", u>>] }

\* requestCallback: the test of line 214.
IsRedirect(res) ==
  res.status >= 300 /\ res.status < 400 /\ res.location # NoUrl

\* Lines 105-113 with 226-233 and 209-223: the template lookup, and the
\* first request of downloadFile.
EnsureDownload ==
  /\ pc = "ensure_url"
  /\ IF ~HasUrlTemplate(req.browserName, req.buildPlatform)
       THEN /\ EnsureFails("unsupported")
            /\ UNCHANGED dl
       ELSE LET url == FormatUrl(DOWNLOAD_URLS[req.browserName][req.buildPlatform],
                                 req.buildNumber) IN
            /\ dl' = [DlIdle EXCEPT !.requested = <<url>>, !.promise = "pending"]
            /\ call' = [call EXCEPT !.ops = @ \cup {"request"}]
            /\ pc' = "dl_wait"
  /\ NoFault
  /\ UNCHANGED <<req, disk, env, patch>>

\* The request issued again for the url that answered with the redirect.
httpRequestNext_SameUrl(res) == res.body[2]

\* requestCallback of a 3xx response with a Location: httpRequest is called
\* again with res.headers.location.
httpRequestNext(res) == res.location

DlRedirect ==
  /\ pc = "dl_wait"
  /\ Len(dl.responses) < MaxRedirects
  /\ \E res \in Redirects(Last(dl.requested)) :
       /\ IsRedirect(res)
       /\ dl' = [dl EXCEPT !.requested = Append(@, httpRequestNext(res)),
                           !.responses = Append(@, res)]
  /\ NoFault
  /\ UNCHANGED <<pc, req, disk, env, call, patch>>

\* The message with the url of the last request.
ErrorUrl_LastRequest(d) == Last(d.requested)

\* The url of the message of line 235.
ErrorUrl(d) == d.requested[1]

\* The response callback of downloadFile, lines 233-248, for the response
\* that requestCallback hands over.
DlResponse ==
  /\ pc = "dl_wait"
  /\ \E res \in Terminals(Last(dl.requested)) :
       /\ ~IsRedirect(res)
       /\ IF res.status # 200
            THEN /\ dl' = [dl EXCEPT !.responses = Append(@, res),
                                     !.drained = TRUE,
                                     !.promise = "rejected",
                                     !.error = <<res.status, ErrorUrl(dl)>>]
                 /\ EnsureFails("download")
                 /\ UNCHANGED zip
            ELSE /\ dl' = [dl EXCEPT !.responses = Append(@, res), !.written = TRUE]
                 /\ zip' = [st |-> "partial", body |-> res.body]
                 /\ pc' = "dl_stream"
                 /\ UNCHANGED call
  /\ NoFault
  /\ UNCHANGED <<req, dir, info, tree, backup, scratch, env, patch>>

\* A request emits 'error'.  Line 249 listens on the request that the first
\* httpRequest returned; a request made after a redirect has no listener,
\* and its 'error' event ends the process.
DlRequestError ==
  /\ pc = "dl_wait"
  /\ IF Len(dl.requested) = 1
       THEN /\ dl' = [dl EXCEPT !.promise = "rejected"]
            /\ EnsureFails("network")
       ELSE /\ pc' = "idle"
            /\ call' = EndCall([call EXCEPT !.res = "crashed"])
            /\ dl' = DlIdle
  /\ Fault
  /\ UNCHANGED <<req, disk, env, patch>>

\* file.on('finish'): the body has been written.
DlFinish ==
  /\ pc = "dl_stream"
  /\ zip' = [zip EXCEPT !.st = "complete"]
  /\ dl' = [dl EXCEPT !.promise = "fulfilled"]
  /\ pc' = "ensure_extract"
  /\ NoFault
  /\ UNCHANGED <<req, dir, info, tree, backup, scratch, env, call, patch>>

\* file.on('error').
DlFileError ==
  /\ pc = "dl_stream"
  /\ dl' = [dl EXCEPT !.promise = "rejected"]
  /\ EnsureFails("io")
  /\ Fault
  /\ UNCHANGED <<req, disk, env, patch>>

\* ------------------------------------------------------------------------
\* ensureFirefoxBuild, after the download

Paths(files) == { f.path : f \in files }

\* Lines 121-122: extractAllTo(BUILD_DIRECTORY, false, true).  An entry
\* whose file exists is not overwritten and makes the extraction throw.
\* An extraction that fails has written none or some of the files.
EnsureExtract ==
  /\ pc = "ensure_extract"
  /\ dl' = DlIdle
  /\ LET files == ZipTree(zip.body[2]) IN
     \/ /\ zip.st = "complete" /\ zip.body[1] = "build"
        /\ Paths(files) \cap Paths(tree) = {}
        /\ tree' = tree \cup files
        /\ call' = [call EXCEPT !.ops = @ \cup {"extract"}]
        /\ pc' = "ensure_persist"
        /\ NoFault
     \/ /\ \E done \in {{}, { f \in files : f.path = OmniPath }} :
             /\ Paths(done) \cap Paths(tree) = {}
             /\ tree' = tree \cup done
        /\ EnsureFailsAfter({"extract"}, "io")
        /\ Fault
  /\ UNCHANGED <<req, dir, info, zip, backup, scratch, env, patch>>

\* Lines 124-126: the descriptor is written and returned.  A failed write
\* leaves no file or a truncated one.
EnsurePersist ==
  /\ pc = "ensure_persist"
  /\ \/ /\ info' = [st |-> "json", val |-> req]
        /\ call' = [call EXCEPT !.ops = @ \cup {"persist"}, !.res = "miss", !.ret = req]
        /\ pc' = "rp_find"
        /\ NoFault
     \/ /\ info' \in {InfoAbsent, [st |-> "garbage", val |-> NoTriple]}
        /\ EnsureFailsAfter({"persist"}, "io")
        /\ Fault
  /\ UNCHANGED <<req, dir, zip, tree, backup, scratch, env, dl, patch>>

\* What an interrupted writeFile leaves at BUILD_INFO_PATH: no file, or
\* the beginning of the JSON text.
InterruptedInfo == {InfoAbsent, [st |-> "garbage", val |-> NoTriple]}

\* The process is killed while ensureFirefoxBuild is between the mkdir of
\* line 104 and its return: before or during the download, during the
\* extraction (some files written) or during the write of the descriptor.
Interrupt ==
  /\ pc \in {"ensure_url", "dl_wait", "dl_stream", "ensure_extract", "ensure_persist"}
  /\ pc' = "idle"
  /\ call' = EndCall([call EXCEPT !.res = "interrupted"])
  /\ dl' = DlIdle
  /\ IF pc = "ensure_extract"
       THEN /\ \E done \in {{}, { f \in ZipTree(zip.body[2]) : f.path = OmniPath }} :
                 /\ Paths(done) \cap Paths(tree) = {}
                 /\ tree' = tree \cup done
            /\ UNCHANGED info
       ELSE IF pc = "ensure_persist"
         THEN /\ info' \in InterruptedInfo
              /\ UNCHANGED tree
         ELSE UNCHANGED <<info, tree>>
  /\ NoFault
  /\ UNCHANGED <<req, dir, zip, backup, scratch, env, patch>>

\* ------------------------------------------------------------------------
\* listFiles and repackageJuggler

\* listFiles(BUILD_DIRECTORY): every file under the stage directory, in
\* no particular order.
listFiles ==
  (IF info.st = "absent" THEN {}
   ELSE {[path |-> <<"build-info.json">>, content |-> {}]})
  \cup (IF zip.st = "absent" THEN {}
        ELSE {[path |-> <<"firefox.zip">>, content |-> {}]})
  \cup (IF backup.exists
        THEN {[path |-> <<"omni.ja.backup">>, content |-> backup.content]} ELSE {})
  \cup tree
  \cup { [path |-> <<"omni">> \o f.name, content |-> {}] : f \in scratch.files }

\* filePath.endsWith('omni.ja'): of the file names of this model only
\* omni.ja itself ends so.
EndsWithOmniJa(path) == Len(path) > 0 /\ Last(path) = "omni.ja"

\* The test for 'chrome' alone.
IncludesChrome(name) == \E i \in 1..Len(name) : name[i] = "chrome"

\* zipEntry.toString().includes('chrome/juggler')
IncludesChromeJuggler(name) ==
  \E i \in 1..(Len(name) - 1) : name[i] = "chrome" /\ name[i + 1] = "juggler"

\* Any archive with an entry taken for one with juggler.
HasJuggler_NonEmpty(content) == content # {}

\* Lines 150-153: some entry of the archive includes 'chrome/juggler'.
HasJuggler(content) == \E e \in content : IncludesChromeJuggler(e.name)

omniPaths == { f \in listFiles : EndsWithOmniJa(f.path) }

\* The archives the loop of lines 147-156 can return: the first one with
\* juggler in the order of omniPaths, which listFiles does not fix.
OmniWithJuggler == { f.path : f \in { g \in omniPaths : HasJuggler(g.content) } }

\* A rejection of repackageJuggler is not caught by main: the process ends
\* with the error.
RpFails(step) ==
  /\ pc' = "idle"
  /\ patch' = EndPatch([patch EXCEPT !.res = "failed", !.why = step, !.doneBefore = FALSE])
  /\ call' = EndCall(call)

\* Lines 144-161: the target is selected, or the process exits with 1.
RpFind ==
  /\ pc = "rp_find"
  /\ IF OmniWithJuggler = {}
       THEN /\ pc' = "idle"
            /\ patch' = EndPatch([patch EXCEPT !.res = "exit1", !.why = "notfound"])
            /\ call' = EndCall(call)
       ELSE /\ \E t \in OmniWithJuggler :
                 patch' = [patch EXCEPT !.target = t, !.step = "find"]
            /\ pc' = "rp_backup"
            /\ UNCHANGED call
  /\ NoFault
  /\ UNCHANGED <<req, disk, env, dl>>

FileAt(path) == CHOOSE f \in tree : f.path = path

\* The backup copied on every call.
BackupExists_Never == FALSE

\* existsAsync(OMNI_BACKUP_PATH), line 162
BackupExists == backup.exists

\* Lines 162-163: the backup is copied when none exists.  copyFile
\* removes the destination when it fails.
RpBackup ==
  /\ pc = "rp_backup"
  /\ IF BackupExists
       THEN /\ UNCHANGED <<backup, call>>
            /\ patch' = [patch EXCEPT !.step = "backup"]
            /\ pc' = "rp_clear"
            /\ NoFault
       ELSE \/ /\ backup' = [exists |-> TRUE, content |-> FileAt(patch.target).content,
                            from |-> patch.target]
               /\ patch' = [patch EXCEPT !.step = "backup"]
               /\ pc' = "rp_clear"
               /\ UNCHANGED call
               /\ NoFault
            \/ /\ backup' = BackupAbsent
               /\ RpFails("backup")
               /\ Fault
  /\ UNCHANGED <<req, dir, info, zip, tree, scratch, env, dl>>

\* Line 167: rm(OMNI_EXTRACT_DIR, {recursive: true}).catch(e => {}).  A
\* removal that fails leaves the directory with all or none of its files.
RpClear ==
  /\ pc = "rp_clear"
  /\ pc' = "rp_mkdir"
  /\ patch' = [patch EXCEPT !.step = "clear"]
  /\ IF ~scratch.exists
       THEN UNCHANGED scratch /\ NoFault
       ELSE \/ scratch' = ScratchAbsent /\ NoFault
            \/ /\ scratch' \in {scratch, [exists |-> TRUE, files |-> {}]}
               /\ Fault
  /\ UNCHANGED <<req, dir, info, zip, tree, backup, env, dl, call>>

\* Line 168: mkdir(OMNI_EXTRACT_DIR) throws EEXIST when the removal failed.
RpMkdir ==
  /\ pc = "rp_mkdir"
  /\ \/ /\ scratch.exists
        /\ RpFails("clear")
        /\ UNCHANGED scratch
        /\ NoFault
     \/ /\ ~scratch.exists
        /\ \/ /\ scratch' = [exists |-> TRUE, files |-> {}]
              /\ patch' = [patch EXCEPT !.step = "mkdir"]
              /\ pc' = "rp_extract"
              /\ UNCHANGED call
              /\ NoFault
           \/ /\ RpFails("clear")
              /\ UNCHANGED scratch
              /\ Fault
  /\ UNCHANGED <<req, dir, info, zip, tree, backup, env, dl>>

\* The archive repackageJuggler unzips into OMNI_EXTRACT_DIR, line 172.
ExtractSource == backup.content

\* Lines 170-174: extractAllTo(OMNI_EXTRACT_DIR, false, true).  An
\* extraction that fails has written none of the files, or the files
\* outside chrome/juggler.
RpExtract ==
  /\ pc = "rp_extract"
  /\ \/ /\ scratch' = [scratch EXCEPT !.files = ExtractSource]
        /\ patch' = [patch EXCEPT !.step = "extract"]
        /\ pc' = "rp_rmjuggler"
        /\ UNCHANGED call
        /\ NoFault
     \/ /\ \E done \in {{}, { f \in ExtractSource : ~UnderJuggler(f.name) }} :
             scratch' = [scratch EXCEPT !.files = done]
        /\ RpFails("extract")
        /\ Fault
  /\ UNCHANGED <<req, dir, info, zip, tree, backup, env, dl>>

\* The removal of line 177 left out.
RemoveJugglerDir_Kept(files) == files

\* What rm(OMNI_JUGGLER_DIR, {recursive: true}) leaves of the extracted files.
RemoveJugglerDir(files) == { f \in files : ~UnderJuggler(f.name) }

\* Line 177: no force option, so a missing directory is an error.  A
\* removal that fails has removed nothing.
RpRmJuggler ==
  /\ pc = "rp_rmjuggler"
  /\ \/ /\ \E f \in scratch.files : UnderJuggler(f.name)
        /\ scratch' = [scratch EXCEPT !.files = RemoveJugglerDir(@)]
        /\ patch' = [patch EXCEPT !.step = "rmjuggler"]
        /\ pc' = "rp_copy"
        /\ UNCHANGED call
        /\ NoFault
     \/ /\ \E f \in scratch.files : UnderJuggler(f.name)
        /\ UNCHANGED scratch
        /\ RpFails("rmjuggler")
        /\ Fault
     \/ /\ ~\E f \in scratch.files : UnderJuggler(f.name)
        /\ UNCHANGED scratch
        /\ RpFails("nojugglerdir")
        /\ NoFault
  /\ UNCHANGED <<req, dir, info, zip, tree, backup, env, dl>>

\* One round of the loop of lines 181-187: copyFile(fromPath, toPath).
CopyLine(files, browserName, line) ==
  { f \in files : f.name # ToPath(line) }
    \cup { [name |-> ToPath(line), data |-> FromData(browserName, line)] }

RECURSIVE CopyLines(_, _, _, _)
CopyLines(files, browserName, lines, k) ==
  IF k = 0 THEN files
  ELSE CopyLine(CopyLines(files, browserName, lines, k - 1), browserName, lines[k])

\* tokens[1].slice throws when the line has one token only.
HasTwoTokens(line) == Len(line) >= 2

\* Lines 179-187: the first k lines are copied; the loop ends early when
\* a line has no second token or a copy fails.
RpCopy ==
  /\ pc = "rp_copy"
  /\ LET lines == JarLines(jarmn)
         ok(k) == \A j \in 1..k : HasTwoTokens(lines[j])
     IN \/ /\ ok(Len(lines))
           /\ scratch' = [scratch EXCEPT
                            !.files = CopyLines(@, req.browserName, lines, Len(lines))]
           /\ patch' = [patch EXCEPT !.step = "copy"]
           /\ pc' = "rp_unlink"
           /\ UNCHANGED call
           /\ NoFault
        \/ /\ \E k \in 0..(Len(lines) - 1) :
                /\ ok(k)
                /\ scratch' = [scratch EXCEPT
                                 !.files = CopyLines(@, req.browserName, lines, k)]
                /\ IF HasTwoTokens(lines[k + 1]) THEN Fault ELSE NoFault
           /\ RpFails("copy")
  /\ UNCHANGED <<req, dir, info, zip, tree, backup, env, dl>>

\* Line 189: unlink(omniWithJugglerPath).
RpUnlink ==
  /\ pc = "rp_unlink"
  /\ \/ /\ tree' = { f \in tree : f.path # patch.target }
        /\ patch' = [patch EXCEPT !.step = "unlink"]
        /\ pc' = "rp_write"
        /\ UNCHANGED call
        /\ NoFault
     \/ /\ UNCHANGED tree
        /\ RpFails("unlink")
        /\ Fault
  /\ UNCHANGED <<req, dir, info, zip, backup, scratch, env, dl>>

\* The files addLocalFolder(OMNI_EXTRACT_DIR) puts into the new archive.
addLocalFolder == scratch.files

\* Lines 190-194: addLocalFolder(OMNI_EXTRACT_DIR), writeZip(omniWithJugglerPath).
\* A write that fails leaves no archive at the path.
RpWrite ==
  /\ pc = "rp_write"
  /\ \/ /\ tree' = { f \in tree : f.path # patch.target }
                     \cup { [path |-> patch.target, content |-> addLocalFolder] }
        /\ patch' = [patch EXCEPT !.step = "write"]
        /\ pc' = "rp_prefs"
        /\ UNCHANGED call
        /\ NoFault
     \/ /\ UNCHANGED tree
        /\ RpFails("write")
        /\ Fault
  /\ UNCHANGED <<req, dir, info, zip, backup, scratch, env, dl>>

\* Lines 196-197: installFirefoxPreferences(BUILD_DIRECTORY/firefox) is
\* awaited; it writes none of the files of this model and may throw.
RpPrefs ==
  /\ pc = "rp_prefs"
  /\ \/ /\ patch' = [patch EXCEPT !.step = "prefs"]
        /\ pc' = "rp_report"
        /\ UNCHANGED call
        /\ NoFault
     \/ /\ RpFails("prefs")
        /\ Fault
  /\ UNCHANGED <<req, disk, env, dl>>

\* Lines 200-205: the executable path is printed and the run ends.
RpReport ==
  /\ pc = "rp_report"
  /\ call.ret.buildPlatform \in DOMAIN EXECUTABLE_PATHS
  /\ patch' = EndPatch([patch EXCEPT !.res = "ok", !.doneBefore = TRUE])
  /\ call' = EndCall(call)
  /\ pc' = "idle"
  /\ NoFault
  /\ UNCHANGED <<req, disk, env, dl>>

\* ------------------------------------------------------------------------

Next ==
  \/ Start
  \/ MainCatch
  \/ EnsureRead
  \/ EnsureRm
  \/ EnsureMkdir
  \/ EnsureDownload
  \/ DlRedirect
  \/ DlResponse
  \/ DlRequestError
  \/ DlFinish
  \/ DlFileError
  \/ EnsureExtract
  \/ EnsurePersist
  \/ Interrupt
  \/ RpFind
  \/ RpBackup
  \/ RpClear
  \/ RpMkdir
  \/ RpExtract
  \/ RpRmJuggler
  \/ RpCopy
  \/ RpUnlink
  \/ RpWrite
  \/ RpPrefs
  \/ RpReport

Spec == Init /\ [][Next]_vars

\* ------------------------------------------------------------------------
\* Runs that find a stage directory with a descriptor file no run wrote

\* What BUILD_INFO_PATH can hold that is not a descriptor: no file, a file
\* that cannot be read, text that is not JSON, the JSON text null, and a
\* JSON number or string.
ForeignInfo ==
  { [st |-> k, val |-> NoTriple] : k \in {"absent", "unreadable", "garbage", "null", "scalar"} }

InitDescriptor ==
  /\ pc = "idle"
  /\ host \in Hosts
  /\ jarmn \in Manifests
  /\ req = NoTriple
  /\ dir = TRUE
  /\ info \in ForeignInfo
  /\ zip = ZipAbsent
  /\ tree = {}
  /\ backup = BackupAbsent
  /\ scratch = ScratchAbsent
  /\ dl = DlIdle
  /\ call = CallInit
  /\ patch = PatchInit
  /\ faults = 0
  /\ hp = HpInit
  /\ ls = LsInit

SpecDescriptor == InitDescriptor /\ [][Next]_vars

\* ------------------------------------------------------------------------
\* getHostPlatform step by step, called by line 98 when no platform is given

\* The newest macOS major version and the newest 10.x minor version of the
\* hosts.
MaxMacMajor == 13
MaxMacMinor == 16

\* For linux, ubuntu is parseInt(ubuntuVersion, 10), 0 when it is NaN.
AllHosts ==
  { [platform |-> "darwin", major |-> ma, minor |-> mi, arm64 |-> a, ubuntu |-> 0] :
      ma \in 10..MaxMacMajor, mi \in 14..MaxMacMinor, a \in BOOLEAN }
  \cup { [platform |-> "linux", major |-> 0, minor |-> 0, arm64 |-> FALSE, ubuntu |-> u] :
           u \in {0, 18, 19, 20, 22} }
  \cup { [platform |-> pf, major |-> 0, minor |-> 0, arm64 |-> FALSE, ubuntu |-> 0] :
           pf \in {"win32", "freebsd"} }

InitHost ==
  /\ pc = "idle"
  /\ host \in AllHosts
  /\ jarmn \in Manifests
  /\ req = NoTriple
  /\ dir = FALSE
  /\ info = InfoAbsent
  /\ zip = ZipAbsent
  /\ tree = {}
  /\ backup = BackupAbsent
  /\ scratch = ScratchAbsent
  /\ dl = DlIdle
  /\ call = CallInit
  /\ patch = PatchInit
  /\ faults = 0
  /\ hp = HpInit
  /\ ls = LsInit

hostFrame == <<host, jarmn, disk, dl, call, patch, faults, ls>>

\* Lines 95-98 with no second and third argument: the build number of the
\* BUILD_NUMBER file, and the call of getHostPlatform.
HostCall ==
  /\ pc = "idle"
  /\ \E b \in BrowserNames :
       req' = [browserName |-> b, buildNumber |-> BUILD_NUMBER_FILE, buildPlatform |-> ""]
  /\ pc' = "host_platform"
  /\ UNCHANGED <<hp, hostFrame>>

\* Lines 296-297 and 321-329: the branches on os.platform().
HostPlatform ==
  /\ pc = "host_platform"
  /\ IF host.platform = "darwin"
       THEN /\ pc' = "host_sw_vers"
            /\ UNCHANGED hp
       ELSE /\ pc' = "host_return"
            /\ hp' = [hp EXCEPT !.tag = getHostPlatform(host)]
  /\ UNCHANGED <<req, hostFrame>>

\* Lines 298-303 and 308-317: sw_vers -productVersion, macVersion.
HostSwVers ==
  /\ pc = "host_sw_vers"
  /\ hp' = [hp EXCEPT !.probes = @ \cup {"sw_vers"},
                      !.macVersion = MacVersion(host.major, host.minor)]
  /\ pc' = IF host.major >= 11 THEN "host_sysctl" ELSE "host_tag"
  /\ UNCHANGED <<req, hostFrame>>

\* Lines 304-306: sysctl -in hw.optional.arm64.
HostSysctl ==
  /\ pc = "host_sysctl"
  /\ hp' = [hp EXCEPT !.probes = @ \cup {"sysctl"}, !.arm64 = host.arm64]
  /\ pc' = "host_tag"
  /\ UNCHANGED <<req, hostFrame>>

\* Lines 318-319.
HostTag ==
  /\ pc = "host_tag"
  /\ hp' = [hp EXCEPT !.tag = MacTag(hp.macVersion, hp.arm64)]
  /\ pc' = "host_return"
  /\ UNCHANGED <<req, hostFrame>>

\* Line 98: buildPlatform = getHostPlatform().
HostReturn ==
  /\ pc = "host_return"
  /\ req' = [req EXCEPT !.buildPlatform = hp.tag]
  /\ pc' = "host_done"
  /\ UNCHANGED <<hp, hostFrame>>

NextHost ==
  \/ HostCall
  \/ HostPlatform
  \/ HostSwVers
  \/ HostSysctl
  \/ HostTag
  \/ HostReturn

SpecHost == InitHost /\ [][NextHost]_vars

\* ------------------------------------------------------------------------
\* listFiles step by step, as line 144 calls it on BUILD_DIRECTORY

\* The largest number of files under the stage directory that is listed.
MaxListed == 5

\* The paths of the files under BUILD_DIRECTORY, relative to it.
FilePaths == Paths(listFiles)

\* The directories: BUILD_DIRECTORY itself, every directory above a file,
\* and OMNI_EXTRACT_DIR when it exists, empty or not.
Dirs ==
  {<<>>}
  \cup UNION { { SubSeq(f, 1, n) : n \in 0..(Len(f) - 1) } : f \in FilePaths }
  \cup (IF scratch.exists THEN {<<"omni">>} ELSE {})

\* readdir(aPath), each entry joined to aPath.
Entries(aPath) ==
  { q \in FilePaths \cup Dirs : Len(q) = Len(aPath) + 1 /\ IsPrefix(aPath, q) }

\* The stages that are listed: a stage directory as the runs leave it, for
\* a build of either browser, with at most MaxListed files.
InitList ==
  /\ pc = "idle"
  /\ host \in Hosts
  /\ jarmn = << HeaderLine >>
  /\ \E b \in BrowserNames :
       /\ req = [browserName |-> b, buildNumber |-> BUILD_NUMBER_FILE,
                 buildPlatform |-> getHostPlatform(host)]
       /\ info \in {InfoAbsent, [st |-> "json", val |-> req]}
       /\ zip \in {ZipAbsent, [st |-> "complete", body |-> <<"build", UrlOf(req)>>]}
       /\ tree \in {{}, ZipTree(UrlOf(req))}
       /\ backup \in {BackupAbsent,
                      [exists |-> TRUE, content |-> PristineOmni(UrlOf(req)), from |-> OmniPath]}
       /\ scratch \in {ScratchAbsent, [exists |-> TRUE, files |-> {}],
                       [exists |-> TRUE, files |-> RemoveJugglerDir(PristineOmni(UrlOf(req)))]}
  /\ dir = TRUE
  /\ dl = DlIdle
  /\ call = CallInit
  /\ patch = PatchInit
  /\ faults = 0
  /\ hp = HpInit
  /\ ls = LsInit
  /\ Cardinality(FilePaths) <= MaxListed

listFrame == <<host, jarmn, req, disk, dl, call, patch, faults, hp>>

\* Line 144 calls listFiles(BUILD_DIRECTORY): the call runs to the await
\* of lstat.
ListStart ==
  /\ pc = "idle"
  /\ ls' = [task |-> (<<>> :> "lstat"), files |-> <<>>, returned |-> FALSE]
  /\ pc' = "listing"
  /\ UNCHANGED listFrame

\* Lines 130-131 and 134-137: lstat of some call resolves; a file is
\* pushed and the call returns, a directory goes on to readdir.
ListLstat ==
  /\ pc = "listing"
  /\ \E aPath \in DOMAIN ls.task :
       /\ ls.task[aPath] = "lstat"
       /\ IF aPath \in Dirs
            THEN ls' = [ls EXCEPT !.task[aPath] = "readdir"]
            ELSE ls' = [ls EXCEPT !.task[aPath] = "done", !.files = Append(@, aPath)]
  /\ UNCHANGED <<pc, listFrame>>

\* Lines 132-133: readdir resolves, and entries.map starts a call for each
\* entry, each running to its await of lstat; the call awaits Promise.all.
ListReaddir ==
  /\ pc = "listing"
  /\ \E aPath \in DOMAIN ls.task :
       /\ ls.task[aPath] = "readdir"
       /\ ls' = [ls EXCEPT !.task =
                   [q \in DOMAIN ls.task \cup Entries(aPath) |->
                      IF q = aPath THEN "all"
                      ELSE IF q \in Entries(aPath) THEN "lstat"
                      ELSE ls.task[q]]]
  /\ UNCHANGED <<pc, listFrame>>

\* Promise.all resolved when one of the calls returned (or none was made).
AllSettled_Any(aPath) ==
  Entries(aPath) = {} \/ \E q \in Entries(aPath) : ls.task[q] = "done"

\* Promise.all of line 133 resolves when every call of an entry returned.
AllSettled(aPath) ==
  \A q \in Entries(aPath) : ls.task[q] = "done"

\* Lines 133 and 137: Promise.all resolves and the call of a directory
\* returns files.
ListJoin ==
  /\ pc = "listing"
  /\ \E aPath \in DOMAIN ls.task :
       /\ ls.task[aPath] = "all"
       /\ AllSettled(aPath)
       /\ ls' = [ls EXCEPT !.task[aPath] = "done"]
  /\ UNCHANGED <<pc, listFrame>>

\* The await of line 144 gets the array of the first call.
ListReturn ==
  /\ pc = "listing"
  /\ ls.task[<<>>] = "done"
  /\ ~ls.returned
  /\ ls' = [ls EXCEPT !.returned = TRUE]
  /\ pc' = "listed"
  /\ UNCHANGED listFrame

NextList ==
  \/ ListStart
  \/ ListLstat
  \/ ListReaddir
  \/ ListJoin
  \/ ListReturn

SpecList == InitList /\ [][NextList]_vars

\* ------------------------------------------------------------------------
\* Properties

StageEmpty ==
  /\ info.st = "absent"
  /\ zip.st = "absent"
  /\ tree = {}
  /\ ~backup.exists
  /\ ~scratch.exists

\* C1: a call of ensureFirefoxBuild with the request of the call before it,
\* which returned, is a cache hit: it removes nothing, requests nothing,
\* extracts nothing, and returns the descriptor the call before returned.
C1_CacheHit ==
  (call.sameReq /\ call.prevOk)
    => /\ call.ops = {}
       /\ pc \notin {"ensure_rm", "ensure_mkdir", "ensure_url", "dl_wait", "dl_stream",
                     "ensure_extract", "ensure_persist", "main_catch"}
       /\ (pc # "ensure_read" => call.res = "hit" /\ call.ret = call.prevRet)

C1_Witness ==
  pc = "rp_find" /\ call.sameReq /\ call.prevOk /\ call.res = "hit"

StageHolds(r) ==
  /\ HasUrlTemplate(r.browserName, r.buildPlatform)
  /\ Paths(tree) = Paths(ZipTree(UrlOf(r)))
  /\ \A f \in ZipTree(UrlOf(r)) : (\A e \in f.content : ~UnderJuggler(e.name)) => f \in tree

\* C3: when ensureFirefoxBuild has returned, the persisted descriptor is the
\* request and the stage holds the extracted build of the request; when it
\* has thrown after the cache check, no descriptor is persisted.
C3_Consistency ==
  /\ (pc = "rp_find" => info = [st |-> "json", val |-> req] /\ StageHolds(req))
  /\ (pc = "main_catch" => info.st # "json")

\* The files the manifest maps, as entries of the archive.
MappedFiles ==
  { line[1][2] : line \in { jarmn[i] : i \in { j \in DOMAIN jarmn : IsJarLine(jarmn[j]) } } }

ExpectedJuggler(browserName) ==
  { [name |-> <<"chrome", "juggler", "content", f>>, data |-> <<"juggler", <<browserName, f>> >>] :
      f \in MappedFiles }

JugglerPart(content) == { e \in content : UnderJuggler(e.name) }
OutsidePart(content) == { e \in content : ~UnderJuggler(e.name) }

\* The archive at omniWithJugglerPath.
TargetContent == FileAt(patch.target).content

C5_PatchResult ==
  pc = "rp_report"
    => /\ JugglerPart(TargetContent) = ExpectedJuggler(req.browserName)
       /\ OutsidePart(TargetContent) = OutsidePart(PristineOmni(UrlOf(req)))
       /\ \A e \in PristineOmni(UrlOf(req)) : UnderJuggler(e.name) => e \notin TargetContent

C5_Witness ==
  pc = "rp_report" /\ ~patch.doneBefore /\ MappedFiles # {} /\ call.res = "miss"

\* The steps C6 names.
RetrySteps == {"clear", "extract", "rmjuggler", "copy", "unlink", "write"}

\* C6: a call of repackageJuggler that follows one that threw at one of
\* the steps after the backup copy finds its archive and chrome/juggler in
\* the backup, and completes with the archive of an uninterrupted run.
C6_Retry ==
  (patch.prevAbort \in RetrySteps)
    => /\ patch.res # "exit1"
       /\ (pc = "rp_rmjuggler" => \E f \in scratch.files : UnderJuggler(f.name))
       /\ (pc = "rp_report"
             => /\ JugglerPart(TargetContent) = ExpectedJuggler(req.browserName)
                /\ OutsidePart(TargetContent) = OutsidePart(PristineOmni(UrlOf(req))))

\* C7: a backup that exists beside a descriptor is the omni.ja of the build
\* of the descriptor as downloaded, and no backup exists while a build is
\* being staged.
C7_BackupOfBuild ==
  /\ (backup.exists /\ info.st = "json")
       => /\ HasUrlTemplate(info.val.browserName, info.val.buildPlatform)
          /\ backup.content = PristineOmni(UrlOf(info.val))
  /\ (pc \in {"ensure_url", "dl_wait", "dl_stream", "ensure_extract", "ensure_persist"}
       => ~backup.exists)

RpSteps ==
  {"rp_find", "rp_backup", "rp_clear", "rp_mkdir", "rp_extract", "rp_rmjuggler",
   "rp_copy", "rp_unlink", "rp_write", "rp_prefs", "rp_report"}

\* C8: no step of repackageJuggler changes a backup that exists, the
\* descriptor, or the existence of the stage directory; and the cache check
\* of a call with the request of the call before it, which returned, hits.
C8_Frame ==
  [][ /\ (pc \in RpSteps
            => /\ info' = info
               /\ dir' = dir
               /\ (backup.exists => backup' = backup))
      /\ (pc = "ensure_read" /\ call.sameReq /\ call.prevOk => pc' = "rp_find") ]_vars

C8_Witness ==
  pc = "rp_clear" /\ backup.exists /\ patch.doneBefore /\ call.res = "hit"

\* C9: every redirect with a Location is followed by a request for that
\* Location, in order; when the promise of downloadFile is fulfilled the
\* last response is a 200 and the file holds its body, which is the body
\* of no response before it; and after a 200 the promise is rejected only
\* for an error of the file.
C9_Redirects ==
  /\ \A i \in 1..Len(dl.responses) :
       IsRedirect(dl.responses[i])
         => /\ Len(dl.requested) > i
            /\ dl.requested[i + 1] = dl.responses[i].location
  /\ Len(dl.requested) <= Len(dl.responses) + 1
  /\ (dl.promise = "fulfilled"
        => /\ Last(dl.responses).status = 200
           /\ zip = [st |-> "complete", body |-> Last(dl.responses).body]
           /\ \A i \in 1..(Len(dl.responses) - 1) :
                /\ IsRedirect(dl.responses[i])
                /\ dl.responses[i].body # zip.body)
  /\ (dl.promise = "rejected" /\ dl.responses # <<>> /\ Last(dl.responses).status = 200
        => call.why = "io")

C9_Witness ==
  /\ pc = "ensure_extract"
  /\ dl.promise = "fulfilled"
  /\ Len(dl.responses) = 3
  /\ dl.requested[2] # dl.requested[3]

\* C10: when the response handed to downloadFile is not a 200, the promise
\* is rejected with the status and the url downloadFile was called with,
\* the body has been resumed, and no file has been created.
C10_Non200 ==
  (dl.responses # <<>> /\ ~IsRedirect(Last(dl.responses)) /\ Last(dl.responses).status # 200)
    => /\ dl.promise = "rejected"
       /\ dl.error = <<Last(dl.responses).status, UrlOf(req)>>
       /\ dl.drained
       /\ ~dl.written
       /\ zip.st = "absent"
       /\ pc = "main_catch" /\ call.why = "download"

C10_Witness ==
  /\ pc = "main_catch"
  /\ dl.promise = "rejected"
  /\ Len(dl.responses) = 2
  /\ Last(dl.responses).status = 302

\* C11: the promise of downloadFile is fulfilled only by the 'finish' of the
\* file, with the whole body written; and whenever a request of the
\* download (the first one or one issued after a redirect) or the file
\* emits 'error', the promise is rejected.
C11_Settlement ==
  [][ /\ (dl'.promise = "fulfilled" /\ dl.promise # "fulfilled"
            => pc = "dl_stream" /\ zip'.st = "complete")
      /\ (pc \in {"dl_wait", "dl_stream"} /\ faults' # faults
            => dl'.promise = "rejected") ]_vars

\* The request names a platform DOWNLOAD_URLS has no template for.
Unsupported ==
  req # NoTriple /\ ~HasUrlTemplate(req.browserName, req.buildPlatform)

\* C12: a call for a platform without a URL template requests no download
\* and never reaches repackageJuggler; unless mkdir fails for a reason of
\* its own, it throws after the stage directory was removed and recreated;
\* and from then until the next call no descriptor is persisted, so that
\* the next call is a cache miss.
C12_Unsupported ==
  Unsupported
    => /\ "request" \notin call.ops
       /\ pc \in {"idle", "ensure_read", "ensure_rm", "ensure_mkdir", "ensure_url", "main_catch"}
       /\ (pc = "main_catch" /\ call.why # "io"
             => /\ call.why = "unsupported"
                /\ {"wiped", "mkdir"} \subseteq call.ops
                /\ dir)
       /\ (pc \in {"main_catch", "idle"} => info.st # "json")

\* The tags of macOS 10.x.
Mac10Tags ==
  (14 :> "mac10.14") @@ (15 :> "mac10.15") @@ (16 :> "mac10.16") @@ (17 :> "mac10.17") @@
  (18 :> "mac10.18")

\* C13: on darwin, for a major version of 11 or more getHostPlatform
\* returns "mac11-arm64" when the arm64 probe says 1 and "mac11" otherwise,
\* a tag both browsers have a URL template for and that has an executable
\* path; the arm64 probe runs only for a major version of 11 or more; and
\* for major version 10 the tag is "mac10.<minor>" without suffix.
C13_MacMapping ==
  /\ ("sysctl" \in hp.probes => host.platform = "darwin" /\ host.major >= 11)
  /\ (pc = "host_done" /\ host.platform = "darwin")
       => /\ req.buildPlatform = getHostPlatform(host)
          /\ (host.major >= 11
                => /\ req.buildPlatform = (IF host.arm64 THEN "mac11-arm64" ELSE "mac11")
                   /\ "sysctl" \in hp.probes
                   /\ \A b \in BrowserNames : HasUrlTemplate(b, req.buildPlatform)
                   /\ req.buildPlatform \in DOMAIN EXECUTABLE_PATHS)
          /\ (host.major = 10
                => /\ req.buildPlatform = Mac10Tags[host.minor]
                   /\ "sysctl" \notin hp.probes)

C13_Witness ==
  /\ pc = "host_done"
  /\ host.platform = "darwin" /\ host.major = 13 /\ host.arm64
  /\ req.buildPlatform = "mac11-arm64"

\* No file of the stage directory that ends in omni.ja has an entry with
\* chrome/juggler.
NoArchiveWithJuggler ==
  \A f \in omniPaths : \A e \in f.content : ~IncludesChromeJuggler(e.name)

\* C14: when no omni.ja of the stage has an entry with chrome/juggler,
\* repackageJuggler ends the process with status 1 and leaves every file of
\* the stage directory as it was: no backup is created, the scratch
\* directory and the archives are untouched, and no later step runs.
C14_MissingArchive ==
  [][ (pc = "rp_find" /\ NoArchiveWithJuggler)
        => /\ pc' = "idle"
           /\ patch'.res = "exit1"
           /\ disk' = disk ]_vars

C14_Witness ==
  /\ pc = "idle"
  /\ patch.res = "exit1"
  /\ patch.doneBefore
  /\ backup.exists

\* C15: the extraction of the build starts with the promise of downloadFile
\* fulfilled and the zip complete; the descriptor is persisted after the
\* extraction put every file of the zip on the stage; repackageJuggler
\* runs only when ensureFirefoxBuild returned the descriptor of the
\* request; the preferences are installed with the new archive written;
\* and the executable path is reported after the preferences.
C15_StepOrder ==
  /\ (pc = "ensure_extract" => dl.promise = "fulfilled" /\ zip.st = "complete")
  /\ ("extract" \in call.ops => "request" \in call.ops)
  /\ (pc = "ensure_persist"
        => "extract" \in call.ops /\ ZipTree(zip.body[2]) \subseteq tree)
  /\ ("persist" \in call.ops => "extract" \in call.ops /\ pc # "ensure_persist")
  /\ (call.res = "failed" => pc \in {"main_catch", "idle"})
  /\ (pc \in RpSteps => call.res \in {"hit", "miss"} /\ call.ret = req)
  /\ (pc = "rp_prefs"
        => /\ patch.step = "write"
           /\ [path |-> patch.target, content |-> scratch.files] \in tree)
  /\ (pc = "rp_report" => patch.step = "prefs")

C15_Witness ==
  /\ pc = "rp_report"
  /\ patch.step = "prefs"
  /\ {"request", "extract", "persist"} \subseteq call.ops

\* The lines of the manifest that start with content/ and end with ')'.
ApplicableLines == { jarmn[i] : i \in { j \in DOMAIN jarmn : IsJarLine(jarmn[j]) } }

\* One file per applicable line: at chrome/juggler/<first token>, from the
\* juggler directory of the browser, named by the second token without its
\* first and last character.
C16_Copies ==
  { [name |-> <<"chrome", "juggler", "content", l[1][2]>>,
     data |-> <<"juggler", <<req.browserName, l[2][2]>> >>] :
      l \in { a \in ApplicableLines : Len(a) >= 2 } }

\* C16 as stated: whatever the manifest, when no copy fails the loop of
\* the manifest ends without an error, with one file per applicable line
\* added to the files extracted.
C16_Original ==
  [][ (pc = "rp_copy" /\ faults' = faults)
        => /\ pc' = "rp_unlink"
           /\ scratch'.files = scratch.files \cup C16_Copies ]_vars

\* C16: when every applicable line has a second token and no copy fails,
\* the loop of the manifest ends without an error, with one file per
\* applicable line added to the files extracted and nothing for the other
\* lines; an applicable line without a second token makes
\* repackageJuggler throw with the target archive untouched.
C16_ManifestParsing ==
  [][ /\ (pc = "rp_copy" /\ faults' = faults /\ \A l \in ApplicableLines : Len(l) >= 2)
        => /\ pc' = "rp_unlink"
           /\ scratch'.files = scratch.files \cup C16_Copies
           /\ Cardinality(C16_Copies) = Cardinality(ApplicableLines)
      /\ (pc = "rp_copy" /\ \E l \in ApplicableLines : Len(l) < 2)
        => /\ pc' = "idle"
           /\ patch'.res = "failed" /\ patch'.why = "copy"
           /\ tree' = tree ]_vars

C16_Witness ==
  /\ pc = "rp_unlink"
  /\ Len(jarmn) = 4
  /\ scratch.files = RemoveJugglerDir(backup.content) \cup C16_Copies

\* C17: whenever the descriptor file is not a descriptor equal to the
\* request (no file, unreadable, not JSON, or JSON that is no descriptor,
\* null included), the cache check of ensureFirefoxBuild goes on to the
\* removal of the stage directory: it neither throws nor returns.
C17_UnusableDescriptor ==
  [][ (pc = "ensure_read" /\ ~(info.st = "json" /\ info.val = req))
        => pc' = "ensure_rm" ]_vars

\* The positions of a cache-miss call between the mkdir of the stage
\* directory and the write of the descriptor.
AcquisitionSteps == {"ensure_url", "dl_wait", "dl_stream", "ensure_extract", "ensure_persist"}

\* C18: at every point of a cache-miss call after the stage directory was
\* recreated and before the descriptor is written, and after an
\* interruption at such a point, no descriptor is persisted; the run after
\* an interruption is never a cache hit, starts by removing the stage
\* directory, and requests the download only with the directory removed
\* and recreated empty, the partial download included.
C18_Interrupted ==
  /\ (pc \in AcquisitionSteps => info.st # "json")
  /\ (call.res = "interrupted" => pc = "idle" /\ info.st # "json")
  /\ call.prevInt
       => /\ call.res # "hit"
          /\ (pc \notin {"ensure_read", "ensure_rm"} => "rm" \in call.ops)
          /\ ("request" \in call.ops => "wiped" \in call.ops)
          /\ (pc = "dl_wait" => StageEmpty)

C18_Witness ==
  /\ pc = "dl_wait"
  /\ call.prevInt
  /\ "wiped" \in call.ops
  /\ faults = 0

\* The steps of repackageJuggler after the backup step.
AfterBackup == RpSteps \ {"rp_find", "rp_backup"}

\* C19 as stated: in every call of repackageJuggler the archive selected is
\* the one the backup was copied from.
C19_Original ==
  pc \in AfterBackup => patch.target = backup.from

\* The archives of the build of the request that have entries under
\* chrome/juggler.
ArchivesWithJuggler ==
  { f \in ZipTree(UrlOf(req)) : \E e \in f.content : UnderJuggler(e.name) }

\* C19: when the staged build has exactly one archive with entries under
\* chrome/juggler, in every call of repackageJuggler that selects an
\* archive the archive selected, unlinked and rewritten is the one the
\* backup was copied from.
C19_StableTarget ==
  (pc \in AfterBackup /\ Cardinality(ArchivesWithJuggler) = 1)
    => /\ patch.target = backup.from
       /\ patch.target = OmniPath

C19_Witness ==
  /\ pc = "rp_unlink"
  /\ patch.doneBefore
  /\ Cardinality(ArchivesWithJuggler) = 1
  /\ patch.target = backup.from

\* The elements of a sequence.
Range(seq) == { seq[i] : i \in DOMAIN seq }

\* C20: the array listFiles(BUILD_DIRECTORY) returns holds every file under
\* the directory exactly once and no directory, whatever the order in which
\* the calls of the entries proceed, and it is returned when every call
\* that was started has returned.
C20_Enumeration ==
  ls.returned
    => /\ Range(ls.files) = FilePaths
       /\ Len(ls.files) = Cardinality(FilePaths)
       /\ Range(ls.files) \cap Dirs = {}
       /\ DOMAIN ls.task = FilePaths \cup Dirs
       /\ \A aPath \in DOMAIN ls.task : ls.task[aPath] = "done"

C20_Witness ==
  /\ ls.returned
  /\ Len(ls.files) >= 5
  /\ Len(ls.files[1]) >= 2
  /\ \E i \in 2..Len(ls.files) : Len(ls.files[i]) = 1

====
